---- MODULE Spec2Model ----
(***************************************************************************)
(* Plan extraction and region binding of GPT4V-Planner                     *)
(* (src/agent/agents.py).                                                  *)
(*                                                                         *)
(* The four planning strategies (SegVLM, DetVLM, DetLLM, VLMSeg) are       *)
(* modelled as one run of plan() on a constructed agent, one step per      *)
(* collaborator call.  extract_plans_and_regions is an operator over a     *)
(* tokenised code block: a token is either a region reference              *)
(* `regions[<digits>]`, kept with the digits as written, or a piece of     *)
(* text that holds no reference.                                           *)
(***************************************************************************)
EXTENDS Integers, Sequences, FiniteSets, TLC

VARIABLES
    agent_type,         \* class of the agent: "SegVLM", "DetVLM", "DetLLM", "VLMSeg"
    configs,            \* self.configs: None or Some(dict)
    pc,                 \* position of plan()
    plan_raw,           \* model response (local of plan)
    detected_objects,   \* detector output (local of plan)
    masks,              \* segmentor output (local of plan)
    plan_code,          \* local of plan: None or Some(code)
    filtered_masks,     \* local of plan: None or Some(list)
    objects_of_interest,\* local of VLMSeg.plan
    best_boxes,         \* local of VLMSeg.plan: dict name -> detection
    result,             \* returned PlanResult: None or Some(record)
    raised,             \* exception that left plan(): None or Some(kind)
    calls               \* number of calls made to each collaborator

vars == <<agent_type, configs, pc, plan_raw, detected_objects, masks, plan_code,
          filtered_masks, objects_of_interest, best_boxes, result, raised, calls>>

----------------------------------------------------------------------------
(* Bounds *)

MaxLen == 3          \* tokens in a code block
MaxIndex == 3        \* largest single-digit index written in a reference
MaxRegions == 3      \* regions a segmentor / detector returns

----------------------------------------------------------------------------
(* Optional values: Python None and a present value *)

None == << >>
Some(x) == << x >>
IsNone(o) == o = << >>
Get(o) == o[1]

----------------------------------------------------------------------------
(* Text of an index-based code block *)

\* the text `regions[<digits>]`, digits as written by the model
Ref(ds) == [kind |-> "ref", digits |-> ds]
\* any text holding no `regions[<digits>]`
Txt == [kind |-> "txt", digits |-> << >>]

\* digit strings the model may write: canonical single digits, one with a
\* leading zero, one with two digits
RefTexts == {<< d >> : d \in 0..MaxIndex} \cup {<< 0, 1 >>, << 1, 0 >>}
Tokens == {Ref(ds) : ds \in RefTexts} \cup {Txt}

SeqsUpTo(S, n) == UNION {[1..k -> S] : k \in 0..n}
CodeBlocks == SeqsUpTo(Tokens, MaxLen)

\* int(index): value of a decimal digit string
RECURSIVE ParseInt(_)
ParseInt(ds) ==
    IF ds = << >> THEN 0
    ELSE 10 * ParseInt(SubSeq(ds, 1, Len(ds) - 1)) + ds[Len(ds)]

\* f'{index}': decimal digits of a natural number, no leading zero
RECURSIVE FormatInt(_)
FormatInt(n) ==
    IF n < 10 THEN << n >> ELSE FormatInt(n \div 10) \o << n % 10 >>

----------------------------------------------------------------------------
(* Model responses *)

\* A response is read only through its fenced blocks: the python-tagged
\* blocks in order of appearance, and the json-tagged blocks in order.
Response(py, js) == [python |-> py, json |-> js]

\* second python block of a response that holds two
ExtraBlock == << Ref(<< 0 >>) >>

\* responses to the index-based strategies: no python block, one, or two
IndexResponses ==
    {Response(<< >>, << >>)}
        \cup {Response(<< c >>, << >>) : c \in CodeBlocks}
        \cup {Response(<< c, ExtraBlock >>, << >>) : c \in CodeBlocks}

----------------------------------------------------------------------------
(* extract_plans_and_regions *)

\* re.findall(r'regions\[(\d+)\]', code_block), each match through int()
RECURSIVE FindMatches(_)
FindMatches(code_block) ==
    IF code_block = << >> THEN << >>
    ELSE LET t == Head(code_block)
             rest == FindMatches(Tail(code_block))
         IN IF t.kind = "ref" THEN << ParseInt(t.digits) >> \o rest ELSE rest

SeqToSet(s) == {s[i] : i \in 1..Len(s)}

Min(S) == CHOOSE x \in S : \A y \in S : x <= y

\* used_indices.sort(): the set as an ascending list
RECURSIVE SortIndices(_)
SortIndices(S) ==
    IF S = {} THEN << >>
    ELSE << Min(S) >> \o SortIndices(S \ {Min(S)})

\* the distinct members of a list in order of first appearance
RECURSIVE FirstSeen(_, _)
FirstSeen(s, seen) ==
    IF s = << >> THEN << >>
    ELSE IF Head(s) \in seen THEN FirstSeen(Tail(s), seen)
         ELSE << Head(s) >> \o FirstSeen(Tail(s), seen \cup {Head(s)})

\* UsedIndices without the sort: the indices in first-seen order
UsedIndicesFirstSeen(code_block) == FirstSeen(FindMatches(code_block), {})

\* used_indices = list(set(int(index) for index in matches)); used_indices.sort()
UsedIndices(code_block) == SortIndices(SeqToSet(FindMatches(code_block)))

\* code_block.replace(f'regions[{old_index}]', f'regions[{new_index}]'):
\* a reference is replaced when its text is the formatted old index
ReplaceReference(code_block, old_index, new_index) ==
    [i \in 1..Len(code_block) |->
        IF code_block[i].kind = "ref" /\ code_block[i].digits = FormatInt(old_index)
        THEN Ref(FormatInt(new_index))
        ELSE code_block[i]]

\* the loop over index_mapping.items(), in insertion order of the dict:
\* used_indices[k] -> k-1 for k = from..Len(used_indices)
RECURSIVE RewriteFrom(_, _, _)
RewriteFrom(code_block, used_indices, from) ==
    IF from > Len(used_indices) THEN code_block
    ELSE RewriteFrom(ReplaceReference(code_block, used_indices[from], from - 1),
                     used_indices, from + 1)

RewriteCode(code_block, used_indices) == RewriteFrom(code_block, used_indices, 1)

\* FilterRegions that drops an invalid index instead of failing
RECURSIVE FilterRegionsSkipInvalid(_, _)
FilterRegionsSkipInvalid(regions, used_indices) ==
    IF used_indices = << >> THEN Some(<< >>)
    ELSE LET rest == Get(FilterRegionsSkipInvalid(regions, Tail(used_indices)))
         IN IF Head(used_indices) >= Len(regions) THEN Some(rest)
            ELSE Some(<< regions[Head(used_indices) + 1] >> \o rest)

\* [regions[index] for index in used_indices], None on IndexError
FilterRegions(regions, used_indices) ==
    IF \E k \in 1..Len(used_indices) : used_indices[k] >= Len(regions)
    THEN None
    ELSE Some([k \in 1..Len(used_indices) |-> regions[used_indices[k] + 1]])

\* the pair (code_block, filtered_regions) the function returns
extract_plans_and_regions(text, regions) ==
    LET code_blocks == text.python
    IN IF code_blocks = << >>
       THEN [plan_code |-> None, filtered |-> None]
       ELSE LET code_block == code_blocks[1]
                used_indices == UsedIndices(code_block)
                rewritten == RewriteCode(code_block, used_indices)
                filtered_regions == FilterRegions(regions, used_indices)
            IN IF IsNone(filtered_regions)
               THEN [plan_code |-> None, filtered |-> None]
               ELSE [plan_code |-> Some(rewritten), filtered |-> filtered_regions]

----------------------------------------------------------------------------
(* Agents and their configuration *)

AgentTypes == {"SegVLM", "DetVLM", "DetLLM", "VLMSeg"}

\* the default configs of each class; values are kept as written
DefaultConfigs(type) ==
    CASE type = "SegVLM" -> [img_size |-> "640", label_mode |-> "1", alpha |-> "0.05"]
      [] type = "DetVLM" -> [img_size |-> "640", label_mode |-> "1", alpha |-> "0.75"]
      [] type = "DetLLM" -> [img_size |-> "640", include_coordinates |-> "True"]
      [] type = "VLMSeg" -> [img_size |-> "640", label_mode |-> "1", alpha |-> "0.75"]

\* the `configs` arguments a caller passes to a constructor
ConfigArgs == {None, Some([img_size |-> "320"]), Some([alpha |-> "0.5"])}

\* dict.update(other): the dict is changed in place and None is returned
DictUpdate(d, other) == None

\* self.configs after __init__(configs = arg)
Construct(type, arg) ==
    IF IsNone(arg) THEN Some(DefaultConfigs(type))
    ELSE DictUpdate(DefaultConfigs(type), Get(arg))

----------------------------------------------------------------------------
(* Collaborators *)

\* a detection: {'box_name': .., 'score': .., 'bbox': ..}
Detection(name, score, bbox) == [box_name |-> name, score |-> score, bbox |-> bbox]

\* detector output for the COMMON_OBJECTS queries: n boxes, distinct
CommonDetections(n) == [i \in 1..n |-> Detection("cup", 1, i)]

\* segmentor.segment_auto_mask: n masks, each a distinct region
AutoMasks(n) == [i \in 1..n |-> i]

\* segmentor.segment_by_bboxes: one mask for each box given, in the order given
segment_by_bboxes(boxes) == [i \in 1..Len(boxes) |-> boxes[i].bbox]

NoCalls == [vlm |-> 0, detector |-> 0, segmentor |-> 0]

----------------------------------------------------------------------------
(* PlanResult *)

EmptyInfo ==
    [configs |-> None, objects_to_detect |-> None, detected_objects |-> None,
     found_objects |-> None, missing_objects |-> None, info_dict |-> None]

\* PlanResult(...) with the keyword defaults of __init__
PlanResult(success, error_message, raw, code, bound, info) ==
    [success |-> success, error_message |-> error_message, plan_raw |-> raw,
     plan_code |-> code, masks |-> bound, info_dict |-> info]

----------------------------------------------------------------------------
(* Text of a name-based code block: a Python str, one character per element *)

Names == {"cup", "cupholder", "mug"}

\* alias strings: one that contains no name, one that contains the name "cup"
AliasTexts == {"jar", "teacup"}

\* the characters of an object name or of an alias
Chars(name) ==
    CASE name = "cup" -> << "c", "u", "p" >>
      [] name = "cupholder" -> << "c", "u", "p", "h", "o", "l", "d", "e", "r" >>
      [] name = "mug" -> << "m", "u", "g" >>
      [] name = "jar" -> << "j", "a", "r" >>
      [] name = "teacup" -> << "t", "e", "a", "c", "u", "p" >>

DigitChar(d) == CASE d = 0 -> "0" [] d = 1 -> "1" [] d = 2 -> "2" [] d = 3 -> "3"
                  [] d = 4 -> "4" [] d = 5 -> "5" [] d = 6 -> "6" [] d = 7 -> "7"
                  [] d = 8 -> "8" [] d = 9 -> "9"

\* str(index)
Str(n) == [k \in 1..Len(FormatInt(n)) |-> DigitChar(FormatInt(n)[k])]

\* f"regions[{str(index)}]"
RegionsText(index) ==
    << "r", "e", "g", "i", "o", "n", "s", "[" >> \o Str(index) \o << "]" >>

RECURSIVE Flatten(_)
Flatten(ss) == IF ss = << >> THEN << >> ELSE Head(ss) \o Flatten(Tail(ss))

\* code blocks of the name-based strategy: two statements with text between
\* them, the first an object name or nothing, the second an object name, an
\* alias or nothing
NameAtoms == {Chars(n) : n \in Names} \cup {<< >>}
AliasAtoms == {Chars(a) : a \in AliasTexts}
NameCodeBlocks ==
    {Flatten(<< a, << ";" >>, b >>) : a \in NameAtoms, b \in NameAtoms \cup AliasAtoms}

\* sequences of distinct names
ObjectLists == {l \in SeqsUpTo(Names, Cardinality(Names)) :
                    \A i, j \in 1..Len(l) : i # j => l[i] # l[j]}

\* a json-tagged block: text that is not JSON ("invalid"), JSON of another
\* shape than a list of records ("other"), or a list of name/aliases records
JsonBlock(kind, records) == [kind |-> kind, records |-> records]
\* the alias lists of a record: none, or both alias strings
AliasLists == {<< >>, << "jar", "teacup" >>}
\* records of the names of `l`, the first of them with the aliases `al`
ObjectRecords(l, al) ==
    [i \in 1..Len(l) |-> [name |-> l[i], aliases |-> IF i = 1 THEN al ELSE << >>]]
JsonBlocks ==
    {JsonBlock("invalid", << >>), JsonBlock("other", << >>)}
        \cup {JsonBlock("records", ObjectRecords(l, al)) :
                    l \in ObjectLists, al \in AliasLists}

\* responses to the name-based strategy
NameResponses ==
    {Response(py, js) :
        py \in {<< >>} \cup {<< c >> : c \in NameCodeBlocks},
        js \in {<< >>} \cup {<< j >> : j \in JsonBlocks}}

\* json.loads(json_block): JSONDecodeError on text that is not JSON
json_loads(block) ==
    IF block.kind = "invalid"
    THEN [raised |-> Some("JSONDecodeError"), value |-> None]
    ELSE [raised |-> None, value |-> Some(block)]

\* VLMSeg.extract_objects_of_interest_from_vlm_response
extract_objects_of_interest_from_vlm_response(raw) ==
    LET code_blocks == raw.python
        json_blocks == raw.json
    IN IF code_blocks = << >> \/ json_blocks = << >>
       THEN [raised |-> None, plan_code |-> None, object_names_and_aliases |-> None]
       ELSE LET loaded == json_loads(json_blocks[1])
            IN [raised |-> loaded.raised,
                plan_code |-> IF IsNone(loaded.raised) THEN Some(code_blocks[1]) ELSE None,
                object_names_and_aliases |-> loaded.value]

----------------------------------------------------------------------------
(* One run of plan() on a constructed agent *)

Init ==
    /\ agent_type \in AgentTypes
    /\ \E arg \in ConfigArgs : configs = Construct(agent_type, arg)
    /\ pc = "start"
    /\ plan_raw = None
    /\ detected_objects = None
    /\ masks = None
    /\ plan_code = None
    /\ filtered_masks = None
    /\ objects_of_interest = None
    /\ best_boxes = None
    /\ result = None
    /\ raised = None
    /\ calls = NoCalls

\* plan() is left by an exception
Raise(kind) ==
    /\ raised' = Some(kind)
    /\ pc' = "done"

\* plan() returns r
Return(r) ==
    /\ result' = Some(r)
    /\ pc' = "done"

\* `if "img_size" in self.configs: processed_image = resize_image(...)`:
\* the membership test on None is a TypeError
Resize ==
    /\ pc = "start"
    /\ IF IsNone(configs)
       THEN /\ Raise("TypeError")
            /\ UNCHANGED result
       ELSE /\ pc' = CASE agent_type = "SegVLM" -> "segment_auto"
                       [] agent_type \in {"DetVLM", "DetLLM"} -> "detect"
                       [] agent_type = "VLMSeg" -> "chat"
            /\ UNCHANGED <<raised, result>>
    /\ UNCHANGED <<agent_type, configs, plan_raw, detected_objects, masks, plan_code,
                   filtered_masks, objects_of_interest, best_boxes, calls>>

\* SegVLM.plan: masks = self.segmentor.segment_auto_mask(processed_image)
SegmentAuto ==
    /\ pc = "segment_auto"
    /\ \E n \in 0..MaxRegions : masks' = Some(AutoMasks(n))
    /\ calls' = [calls EXCEPT !.segmentor = @ + 1]
    /\ pc' = "chat"
    /\ UNCHANGED <<agent_type, configs, plan_raw, detected_objects, plan_code,
                   filtered_masks, objects_of_interest, best_boxes, result, raised>>

\* DetVLM.plan, DetLLM.plan: detect the COMMON_OBJECTS, return when none is found
DetectCommon ==
    /\ pc = "detect"
    /\ calls' = [calls EXCEPT !.detector = @ + 1]
    /\ \E n \in 0..MaxRegions :
        /\ detected_objects' = Some(CommonDetections(n))
        /\ IF n = 0
           THEN Return(PlanResult(FALSE, Some("No objects were detected in the image."),
                                  None, None, None,
                                  [EmptyInfo EXCEPT !.objects_to_detect = Some("COMMON_OBJECTS")]))
           ELSE /\ pc' = "chat"
                /\ UNCHANGED result
    /\ UNCHANGED <<agent_type, configs, plan_raw, masks, plan_code, filtered_masks,
                   objects_of_interest, best_boxes, raised>>

\* plan_raw = self.vlm.chat(...) / self.llm.chat(...)
Chat ==
    /\ pc = "chat"
    /\ \E text \in IF agent_type = "VLMSeg" THEN NameResponses ELSE IndexResponses :
        plan_raw' = Some(text)
    /\ calls' = [calls EXCEPT !.vlm = @ + 1]
    /\ pc' = CASE agent_type = "SegVLM" -> "bind"
               [] agent_type \in {"DetVLM", "DetLLM"} -> "segment_boxes"
               [] agent_type = "VLMSeg" -> "extract_objects"
    /\ UNCHANGED <<agent_type, configs, detected_objects, masks, plan_code,
                   filtered_masks, objects_of_interest, best_boxes, result, raised>>

\* DetVLM.plan, DetLLM.plan: masks = self.segmentor.segment_by_bboxes(...)
SegmentBoxes ==
    /\ pc = "segment_boxes"
    /\ masks' = Some(segment_by_bboxes(Get(detected_objects)))
    /\ calls' = [calls EXCEPT !.segmentor = @ + 1]
    /\ pc' = "bind"
    /\ UNCHANGED <<agent_type, configs, plan_raw, detected_objects, plan_code,
                   filtered_masks, objects_of_interest, best_boxes, result, raised>>

\* SegVLM.plan, DetVLM.plan: extract, and return a failure when plan_code is None
BindOrFail ==
    /\ pc = "bind"
    /\ agent_type \in {"SegVLM", "DetVLM"}
    /\ LET got == extract_plans_and_regions(Get(plan_raw), Get(masks))
           info == [EmptyInfo EXCEPT !.configs = configs]
       IN /\ plan_code' = got.plan_code
          /\ filtered_masks' = got.filtered
          /\ IF IsNone(got.plan_code)
             THEN Return(PlanResult(FALSE, Some("Invalid or no code is generated."),
                                    plan_raw, None, None, info))
             ELSE Return(PlanResult(TRUE, None, plan_raw, got.plan_code, got.filtered, info))
    /\ UNCHANGED <<agent_type, configs, plan_raw, detected_objects, masks,
                   objects_of_interest, best_boxes, raised, calls>>

\* DetLLM.plan: extract, and return success=True whatever was extracted
BindAlways ==
    /\ pc = "bind"
    /\ agent_type = "DetLLM"
    /\ LET got == extract_plans_and_regions(Get(plan_raw), Get(masks))
           info == [EmptyInfo EXCEPT !.configs = configs, !.detected_objects = detected_objects]
       IN /\ plan_code' = got.plan_code
          /\ filtered_masks' = got.filtered
          /\ Return(PlanResult(TRUE, None, plan_raw, got.plan_code, got.filtered, info))
    /\ UNCHANGED <<agent_type, configs, plan_raw, detected_objects, masks,
                   objects_of_interest, best_boxes, raised, calls>>

\* VLMSeg.plan: extract the objects of interest, then test the local
\* `objects_of_interest` before it is assigned: json.loads may raise, and
\* otherwise the test raises UnboundLocalError
ExtractObjects ==
    /\ pc = "extract_objects"
    /\ LET got == extract_objects_of_interest_from_vlm_response(Get(plan_raw))
       IN IF ~IsNone(got.raised)
          THEN /\ Raise(Get(got.raised))
               /\ UNCHANGED plan_code
          ELSE /\ plan_code' = got.plan_code
               /\ Raise("UnboundLocalError")
    /\ UNCHANGED <<agent_type, configs, plan_raw, detected_objects, masks,
                   filtered_masks, objects_of_interest, best_boxes, result, calls>>

Next ==
    \/ Resize
    \/ SegmentAuto
    \/ DetectCommon
    \/ Chat
    \/ SegmentBoxes
    \/ BindOrFail
    \/ BindAlways
    \/ ExtractObjects

Spec == Init /\ [][Next]_vars

----------------------------------------------------------------------------
(* Name resolution of VLMSeg.plan: the steps from line 512 on, run on the   *)
(* values that extract_objects_of_interest_from_vlm_response extracts from  *)
(* a response with a python block and a json list of records.  In plan()    *)
(* these steps come after the test of `objects_of_interest` that            *)
(* ExtractObjects models.                                                   *)

MaxDets == 3         \* detections the detector returns
Scores == {1, 2}     \* confidence scores, low and high

\* detector outputs: any names and scores, boxes distinct (bbox = position)
DetectionSeqs ==
    UNION {{[i \in 1..n |-> Detection(f[i][1], f[i][2], i)] :
                f \in [1..n -> Names \X Scores]} : n \in 0..MaxDets}

\* responses from which code and records are extracted
WellFormedResponses ==
    {r \in NameResponses :
        r.python # << >> /\ r.json # << >> /\ r.json[1].kind = "records"}

\* objects_of_interest = [obj["name"] for obj in object_names_and_aliases]
ObjectNames(records) == [i \in 1..Len(records) |-> records[i].name]

\* one pass of the loop body over `det`, with `>=` for `>`: the last
\* detection of the top score wins
KeepBestLastWins(best, det) ==
    IF det.box_name \notin DOMAIN best \/ det.score >= best[det.box_name].score
    THEN [n \in DOMAIN best \cup {det.box_name} |->
            IF n = det.box_name THEN det ELSE best[n]]
    ELSE best

\* one pass of the loop body of lines 525-528 over `det`
KeepBest(best, det) ==
    IF det.box_name \notin DOMAIN best \/ det.score > best[det.box_name].score
    THEN [n \in DOMAIN best \cup {det.box_name} |->
            IF n = det.box_name THEN det ELSE best[n]]
    ELSE best

\* for det in detected_objects: ..., from the empty dict
RECURSIVE BestBoxesFrom(_, _, _)
BestBoxesFrom(dets, k, best) ==
    IF k > Len(dets) THEN best
    ELSE BestBoxesFrom(dets, k + 1, KeepBest(best, dets[k]))

EmptyDict == [n \in {} |-> 0]
BestBoxes(dets) == BestBoxesFrom(dets, 1, EmptyDict)

\* only the first requested name that has no best box
FirstMissingOnly(requested, best) ==
    LET miss == {i \in 1..Len(requested) : requested[i] \notin DOMAIN best}
    IN IF miss = {} THEN {} ELSE {requested[Min(miss)]}

\* missing_objects = set(objects_of_interest) - set(best_boxes.keys())
MissingObjects(requested, best) == SeqToSet(requested) \ DOMAIN best

\* boxes_of_interest = [best_boxes[name] for name in objects_of_interest]
BoxesOfInterest(requested, best) == [i \in 1..Len(requested) |-> best[requested[i]]]

\* str.replace(old, new) for a non-empty old: every non-overlapping
\* occurrence, leftmost first
RECURSIVE StrReplace(_, _, _)
StrReplace(s, old, new) ==
    IF Len(s) < Len(old) THEN s
    ELSE IF SubSeq(s, 1, Len(old)) = old
         THEN new \o StrReplace(SubSeq(s, Len(old) + 1, Len(s)), old, new)
         ELSE << Head(s) >> \o StrReplace(Tail(s), old, new)

\* for index, object_name in enumerate(objects_of_interest):
\*     plan_code = plan_code.replace(object_name, f"regions[{str(index)}]")
RECURSIVE ReplaceNamesFrom(_, _, _)
ReplaceNamesFrom(code, requested, k) ==
    IF k > Len(requested) THEN code
    ELSE ReplaceNamesFrom(StrReplace(code, Chars(requested[k]), RegionsText(k - 1)),
                          requested, k + 1)

\* str.replace of each string of `olds` in turn by `new`
RECURSIVE ReplaceEach(_, _, _)
ReplaceEach(code, olds, new) ==
    IF olds = << >> THEN code
    ELSE ReplaceEach(StrReplace(code, Chars(Head(olds)), new), Tail(olds), new)

\* after the names, the aliases of each record replaced by that record's
\* reference
RECURSIVE ReplaceAliasesFrom(_, _, _)
ReplaceAliasesFrom(code, records, k) ==
    IF k > Len(records) THEN code
    ELSE ReplaceAliasesFrom(ReplaceEach(code, records[k].aliases, RegionsText(k - 1)),
                            records, k + 1)

\* the substitution loop with the aliases as keys too
ReplaceNamesAndAliases(code, requested) ==
    ReplaceAliasesFrom(ReplaceNamesFrom(code, requested, 1),
                       Get(plan_raw).json[1].records, 1)

ReplaceNames(code, requested) == ReplaceNamesFrom(code, requested, 1)

InitResolve ==
    /\ agent_type = "VLMSeg"
    /\ configs = Some(DefaultConfigs("VLMSeg"))
    /\ pc = "names"
    /\ \E text \in WellFormedResponses :
        /\ plan_raw = Some(text)
        /\ plan_code = extract_objects_of_interest_from_vlm_response(text).plan_code
    /\ detected_objects = None
    /\ masks = None
    /\ filtered_masks = None
    /\ objects_of_interest = None
    /\ best_boxes = None
    /\ result = None
    /\ raised = None
    /\ calls = [NoCalls EXCEPT !.vlm = 1]

\* lines 512-520: the requested names, and the detector called on them
DetectNames ==
    /\ pc = "names"
    /\ objects_of_interest' = Some(ObjectNames(Get(plan_raw).json[1].records))
    /\ \E dets \in DetectionSeqs : detected_objects' = Some(dets)
    /\ calls' = [calls EXCEPT !.detector = @ + 1]
    /\ pc' = "select"
    /\ UNCHANGED <<agent_type, configs, plan_raw, masks, plan_code, filtered_masks,
                   best_boxes, result, raised>>

\* lines 522-528: the best box of each detected name
SelectBest ==
    /\ pc = "select"
    /\ best_boxes' = Some(BestBoxes(Get(detected_objects)))
    /\ pc' = "check"
    /\ UNCHANGED <<agent_type, configs, plan_raw, detected_objects, masks, plan_code,
                   filtered_masks, objects_of_interest, result, raised, calls>>

\* lines 530-542: return a failure when a requested name has no best box
CheckMissing ==
    /\ pc = "check"
    /\ LET missing_objects == MissingObjects(Get(objects_of_interest), Get(best_boxes))
       IN IF missing_objects # {}
          THEN Return(PlanResult(FALSE, Some("Missing objects"), None, None, None,
                        [EmptyInfo EXCEPT
                            !.objects_to_detect = objects_of_interest,
                            !.found_objects = Some(DOMAIN Get(best_boxes)),
                            !.missing_objects = Some(missing_objects),
                            !.info_dict = Some([configs |-> configs])]))
          ELSE /\ pc' = "segment"
               /\ UNCHANGED result
    /\ UNCHANGED <<agent_type, configs, plan_raw, detected_objects, masks, plan_code,
                   filtered_masks, objects_of_interest, best_boxes, raised, calls>>

\* lines 544-555: the boxes of interest are drawn; the segmentor is given
\* detected_objects
SegmentDetected ==
    /\ pc = "segment"
    /\ masks' = Some(segment_by_bboxes(Get(detected_objects)))
    /\ calls' = [calls EXCEPT !.segmentor = @ + 1]
    /\ pc' = "substitute"
    /\ UNCHANGED <<agent_type, configs, plan_raw, detected_objects, plan_code,
                   filtered_masks, objects_of_interest, best_boxes, result, raised>>

\* lines 566-578: the names are replaced and the plan is returned
SubstituteAndReturn ==
    /\ pc = "substitute"
    /\ LET code == ReplaceNames(Get(plan_code), Get(objects_of_interest))
       IN /\ plan_code' = Some(code)
          /\ Return(PlanResult(TRUE, None, plan_raw, Some(code), masks,
                               [EmptyInfo EXCEPT !.configs = configs]))
    /\ UNCHANGED <<agent_type, configs, plan_raw, detected_objects, masks,
                   filtered_masks, objects_of_interest, best_boxes, raised, calls>>

NextResolve ==
    \/ DetectNames
    \/ SelectBest
    \/ CheckMissing
    \/ SegmentDetected
    \/ SubstituteAndReturn

SpecResolve == InitResolve /\ [][NextResolve]_vars

----------------------------------------------------------------------------
(* extract_plans_and_regions applied to its own result: the function is run *)
(* on a response and a RegionSet, and then on the code it returned, fenced  *)
(* again, with the RegionSet it returned.                                   *)

InitRemap ==
    /\ agent_type = "SegVLM"
    /\ configs = Some(DefaultConfigs("SegVLM"))
    /\ pc = "remap"
    /\ \E text \in IndexResponses : plan_raw = Some(text)
    /\ \E n \in 0..MaxRegions : masks = Some(AutoMasks(n))
    /\ detected_objects = None
    /\ plan_code = None
    /\ filtered_masks = None
    /\ objects_of_interest = None
    /\ best_boxes = None
    /\ result = None
    /\ raised = None
    /\ calls = NoCalls

\* plan_code, filtered_masks = extract_plans_and_regions(plan_raw, masks)
Remap ==
    /\ pc = "remap"
    /\ LET got == extract_plans_and_regions(Get(plan_raw), Get(masks))
       IN /\ plan_code' = got.plan_code
          /\ filtered_masks' = got.filtered
          /\ pc' = IF IsNone(got.plan_code) THEN "rejected" ELSE "remapped"
    /\ UNCHANGED <<agent_type, configs, plan_raw, detected_objects, masks,
                   objects_of_interest, best_boxes, result, raised, calls>>

\* the same call on the pair just returned
RemapAgain ==
    /\ pc = "remapped"
    /\ LET text == Response(<< Get(plan_code) >>, << >>)
           got == extract_plans_and_regions(text, Get(filtered_masks))
       IN /\ plan_raw' = Some(text)
          /\ masks' = filtered_masks
          /\ plan_code' = got.plan_code
          /\ filtered_masks' = got.filtered
    /\ pc' = "remapped_twice"
    /\ UNCHANGED <<agent_type, configs, detected_objects, objects_of_interest,
                   best_boxes, result, raised, calls>>

NextRemap ==
    \/ Remap
    \/ RemapAgain

SpecRemap == InitRemap /\ [][NextRemap]_vars

----------------------------------------------------------------------------
(* Properties of the index-based strategies *)

\* plan() of an index-based strategy has run extract_plans_and_regions
Extracted ==
    /\ pc = "done"
    /\ agent_type \in {"SegVLM", "DetVLM", "DetLLM"}
    /\ ~IsNone(plan_raw)
    /\ ~IsNone(masks)

\* the response holds a python block
HasCode == Get(plan_raw).python # << >>

\* the code fragment: the first python block of the response
Fragment == Get(plan_raw).python[1]

\* the set S of indices a fragment refers to
RefIndices(code) ==
    {ParseInt(code[i].digits) : i \in {j \in 1..Len(code) : code[j].kind = "ref"}}

\* the i-th smallest member of S (i from 1)
IthSmallest(S, i) == CHOOSE j \in S : Cardinality({x \in S : x < j}) = i - 1

\* C1: when every index the fragment refers to lies within 0..n-1, the
\* filtered RegionSet has |S| elements and its i-th element is the region
\* whose original index is the i-th smallest member of S.
C1_IndexOrder ==
    (Extracted /\ HasCode /\ RefIndices(Fragment) \subseteq 0..(Len(Get(masks)) - 1))
        => /\ ~IsNone(filtered_masks)
           /\ Len(Get(filtered_masks)) = Cardinality(RefIndices(Fragment))
           /\ \A i \in 1..Len(Get(filtered_masks)) :
                Get(filtered_masks)[i] = Get(masks)[IthSmallest(RefIndices(Fragment), i) + 1]

\* C1 witness: a fragment that refers to index 2 before index 0 was bound
C1_Witness ==
    /\ Extracted /\ HasCode
    /\ Len(Fragment) >= 2
    /\ Fragment[1] = Ref(<< 2 >>) /\ Fragment[2] = Ref(<< 0 >>)
    /\ Len(Get(masks)) >= 3
    /\ filtered_masks = Some(<< Get(masks)[1], Get(masks)[3] >>)

\* C2: after a successful remap of a fragment with k distinct references,
\* the indices referred to in the rewritten code are exactly 0..k-1.
C2_Density ==
    (Extracted /\ HasCode /\ ~IsNone(plan_code))
        => RefIndices(Get(plan_code)) = 0..(Cardinality(RefIndices(Fragment)) - 1)

\* C3: a fragment that refers to an index outside 0..n-1 makes the remap
\* fail as a whole: neither rewritten code nor any RegionSet is returned.
C3_OutOfRange ==
    (Extracted /\ HasCode /\ \E j \in RefIndices(Fragment) : j >= Len(Get(masks)))
        => IsNone(plan_code) /\ IsNone(filtered_masks)

\* C3 witness: index n with n regions, next to a valid index, was rejected
C3_Witness ==
    /\ Extracted /\ HasCode
    /\ Len(Get(masks)) >= 1
    /\ 0 \in RefIndices(Fragment)
    /\ Len(Get(masks)) \in RefIndices(Fragment)
    /\ IsNone(plan_code) /\ IsNone(filtered_masks)

\* C4: a returned PlanResult has success = TRUE only with both the plan code
\* and the bound RegionSet present, and success = FALSE when extraction or
\* binding failed.
C4_NoPartialPlan ==
    (pc = "done" /\ ~IsNone(result) /\ Get(result).success)
        => ~IsNone(Get(result).plan_code) /\ ~IsNone(Get(result).masks)

----------------------------------------------------------------------------
(* Properties of the name-based strategy: extraction *)

\* VLMSeg.plan has ended after the model answered
NameRunEnded == pc = "done" /\ agent_type = "VLMSeg" /\ ~IsNone(plan_raw)

\* C5: with no python block or no json block, VLMSeg.plan returns a
\* PlanResult with success = FALSE carrying the raw text; it does not raise
\* and calls neither the detector nor the segmentor.
C5_NoCodeBlock ==
    (NameRunEnded /\ (Get(plan_raw).python = << >> \/ Get(plan_raw).json = << >>))
        => /\ IsNone(raised)
           /\ ~IsNone(result)
           /\ ~Get(result).success
           /\ Get(result).plan_raw = plan_raw
           /\ calls.detector = 0 /\ calls.segmentor = 0

\* C6: a json block that is present but is not a list of name/aliases
\* records ends in a returned failure; no exception reaches the caller.
C6_MalformedBlock ==
    (/\ NameRunEnded
     /\ Get(plan_raw).python # << >> /\ Get(plan_raw).json # << >>
     /\ Get(plan_raw).json[1].kind \in {"invalid", "other"})
        => /\ IsNone(raised)
           /\ ~IsNone(result)
           /\ ~Get(result).success

----------------------------------------------------------------------------
(* Properties of the name-based strategy: resolution *)

\* the names of the detections
DetectedNames(dets) == {dets[i].box_name : i \in 1..Len(dets)}

\* the positions of the detections of `name` with the top score of that name
TopPositions(dets, name) ==
    {i \in 1..Len(dets) :
        /\ dets[i].box_name = name
        /\ \A j \in 1..Len(dets) : dets[j].box_name = name => dets[j].score <= dets[i].score}

\* the name-based resolution has returned a success
Resolved == pc = "done" /\ ~IsNone(result) /\ Get(result).success /\ ~IsNone(best_boxes)

RECURSIVE LongestFirst(_)
LongestFirst(S) ==
    IF S = {} THEN << >>
    ELSE LET n == CHOOSE x \in S : \A y \in S : Len(Chars(y)) <= Len(Chars(x))
         IN << n >> \o LongestFirst(S \ {n})

IndexOf(requested, name) == CHOOSE i \in 1..Len(requested) : requested[i] = name

\* substitution of each requested name by its own reference, in `order`
RECURSIVE SubstituteInOrder(_, _, _)
SubstituteInOrder(code, order, requested) ==
    IF order = << >> THEN code
    ELSE SubstituteInOrder(
            StrReplace(code, Chars(Head(order)),
                       RegionsText(IndexOf(requested, Head(order)) - 1)),
            Tail(order), requested)

\* the positions of `code` at which the string `name` occurs
Occurrences(code, name) ==
    {i \in 1..(Len(code) - Len(Chars(name)) + 1) :
        SubSeq(code, i, i + Len(Chars(name)) - 1) = Chars(name)}

\* `name` occurs in `code`
Occurs(code, name) == Occurrences(code, name) # {}

C9_BestPerName ==
    ~IsNone(best_boxes) =>
        LET dets == Get(detected_objects)
            best == Get(best_boxes)
        IN /\ DOMAIN best = DetectedNames(dets)
           /\ \A name \in DOMAIN best :
                best[name] = dets[Min(TopPositions(dets, name))]

\* C9 witness: a name detected three times, the top score twice, the first
\* of the two kept
C9_Witness ==
    /\ ~IsNone(best_boxes)
    /\ Len(Get(detected_objects)) = 3
    /\ \A i \in 1..3 : Get(detected_objects)[i].box_name = "cup"
    /\ Get(detected_objects)[1].score = 1
    /\ Get(detected_objects)[2].score = 2
    /\ Get(detected_objects)[3].score = 2
    /\ Get(best_boxes)["cup"] = Get(detected_objects)[2]

\* a requested name has no detection
SomeNameMissing ==
    /\ ~IsNone(objects_of_interest) /\ ~IsNone(detected_objects)
    /\ SeqToSet(Get(objects_of_interest)) \ DetectedNames(Get(detected_objects)) # {}

\* C10: when a requested name has no kept detection the resolution returns
\* success = FALSE, with all the missing names (requested minus detected)
\* and all the found names in the diagnostics, and neither code nor regions.
C10_MissingComplete ==
    (pc = "done" /\ SomeNameMissing) =>
        /\ ~IsNone(result)
        /\ ~Get(result).success
        /\ Get(result).info_dict.missing_objects =
                Some(SeqToSet(Get(objects_of_interest)) \ DetectedNames(Get(detected_objects)))
        /\ Get(result).info_dict.found_objects = Some(DetectedNames(Get(detected_objects)))
        /\ IsNone(Get(result).plan_code)
        /\ IsNone(Get(result).masks)

\* C10 witness: three names requested, two of them missing, one found
C10_Witness ==
    /\ pc = "done" /\ SomeNameMissing
    /\ ~IsNone(result)
    /\ Cardinality(Get(Get(result).info_dict.missing_objects)) = 2
    /\ Get(result).info_dict.found_objects = Some({"mug"})

\* the alias strings of the records of the response
AliasesOf(records) == UNION {SeqToSet(records[i].aliases) : i \in 1..Len(records)}

\* an alias contains a requested name
ContainsRequestedName(alias, requested) ==
    \E i \in 1..Len(requested) : Occurs(Chars(alias), requested[i])

----------------------------------------------------------------------------
(* Properties of the remap applied twice *)

\* C11: the remap of the result of a remap returns that code and that
\* RegionSet unchanged.
C11_Idempotent ==
    pc = "remapped_twice" =>
        /\ plan_code = Some(Get(plan_raw).python[1])
        /\ filtered_masks = masks

----------------------------------------------------------------------------
(* Properties of the strategies: detection, orchestration, configuration *)

C13_ReferencePreserved ==
    (Extracted /\ HasCode /\ ~IsNone(plan_code)) =>
        LET old == Fragment
            new == Get(plan_code)
            bound == Get(filtered_masks)
        IN /\ Len(new) = Len(old)
           /\ \A i \in 1..Len(old) :
                IF old[i].kind = "txt" THEN new[i] = old[i]
                ELSE /\ new[i].kind = "ref"
                     /\ ParseInt(new[i].digits) < Len(bound)
                     /\ bound[ParseInt(new[i].digits) + 1] =
                            Get(masks)[ParseInt(old[i].digits) + 1]

\* C14: in a run of plan() the model is called at most once, and the run
\* ends by returning one PlanResult, a success or a failure.
C14_SingleShot ==
    /\ calls.vlm <= 1
    /\ pc = "done" => (~IsNone(result) /\ IsNone(raised))

\* the defaults `d` overridden and extended by the supplied mapping `o`
MergedConfigs(d, o) ==
    [k \in DOMAIN d \cup DOMAIN o |-> IF k \in DOMAIN o THEN o[k] ELSE d[k]]

\* C16: the configuration of a constructed strategy is a mapping: the
\* defaults when no configs are supplied, and otherwise the defaults
\* overridden by the supplied mapping.
C16_ConfigOverride ==
    /\ ~IsNone(configs)
    /\ \E arg \in ConfigArgs :
        Get(configs) = IF IsNone(arg) THEN DefaultConfigs(agent_type)
                       ELSE MergedConfigs(DefaultConfigs(agent_type), Get(arg))

====
